---- MODULE Spec2Model ----
(***************************************************************************)
(* nix-shell-gen: the `add` command and the structural edit of flake.nix.  *)
(*                                                                         *)
(* Text is a sequence of symbols.  A symbol is one lexical unit of the Nix *)
(* text (a punctuation character, a word, a run of whitespace) and counts  *)
(* as one unit of offset, so offsets are symbol offsets, 0-based as the    *)
(* byte offsets of the code are.                                           *)
(***************************************************************************)
EXTENDS Integers, Sequences, FiniteSets, TLC

\* ------------------------------------------------------------------ bounds
\* entries of the `inputs` set of the flake.nix the run starts from
MaxEntries == 2
\* flake inputs requested by one `add` invocation (-P)
MaxInputs == 2

\* ------------------------------------------------------------ text helpers
WS == {" ", "\n", "\n  ", "\n    "}

IsTrivia(s) == s \in WS

Idents == {"inputs", "outputs", "description", "url", "a", "b", "c", "x", "dev"}

RECURSIVE Flatten(_)
Flatten(ss) == IF ss = <<>> THEN <<>> ELSE Head(ss) \o Flatten(Tail(ss))

\* str::trim: strips leading and trailing whitespace
RECURSIVE TrimStart(_)
TrimStart(s) ==
    IF s # <<>> /\ IsTrivia(Head(s)) THEN TrimStart(Tail(s)) ELSE s

RECURSIVE TrimEnd(_)
TrimEnd(s) ==
    IF s # <<>> /\ IsTrivia(s[Len(s)]) THEN TrimEnd(SubSeq(s, 1, Len(s) - 1)) ELSE s

Trim(s) == TrimEnd(TrimStart(s))

\* ------------------------------------------------- rnix: the lossless tree
\* A tree element: a token (kind TOKEN, one symbol) or a node with children.
\* start/end are the element's text range, 0-based, end exclusive.
Tok(s, off) ==
    [kind |-> "TOKEN", text |-> s, start |-> off, end |-> off + 1, children |-> <<>>]

Node(k, els, off) ==
    [kind |-> k, text |-> "", start |-> off,
     end |-> IF els = <<>> THEN off ELSE els[Len(els)].end,
     children |-> els]

None == [kind |-> "NONE", text |-> "", start |-> 0, end |-> 0, children |-> <<>>]

\* tokens of text[p .. q-1] (1-based indices)
Toks(text, p, q) ==
    [i \in 1..(IF q > p THEN q - p ELSE 0) |-> Tok(text[p + i - 1], p + i - 2)]

\* index of the first non-trivia symbol at or after p, Len+1 at end of input
SkipWs(text, p) ==
    IF \E q \in p..Len(text) : ~IsTrivia(text[q])
    THEN CHOOSE q \in p..Len(text) :
            /\ ~IsTrivia(text[q])
            /\ \A r \in p..(q - 1) : IsTrivia(text[r])
    ELSE Len(text) + 1

\* index of the first symbol at or after p that is in `allowed` and is not
\* trivia, Len+1 when there is none
NextOf(text, p, allowed) ==
    IF \E q \in p..Len(text) : text[q] \in allowed
    THEN CHOOSE q \in p..Len(text) :
            /\ text[q] \in allowed
            /\ \A r \in p..(q - 1) : text[r] \notin allowed
    ELSE Len(text) + 1

\* index of the last non-trivia symbol before r (r > q, text[q] not trivia)
LastSolid(text, q, r) ==
    CHOOSE e \in q..(r - 1) :
        /\ ~IsTrivia(text[e])
        /\ \A j \in (e + 1)..(r - 1) : IsTrivia(text[j])

\* binds a computed value to a name: With(v, LAMBDA x : e) is e with v for x
With(v, F(_)) == F(v)

\* Parser::expect: the awaited token is bumped (with the trivia before it);
\* an unexpected token opens a NODE_ERROR that swallows tokens up to the
\* awaited one; at end of input nothing is emitted.
Expect(text, p, allowed) ==
    With(SkipWs(text, p), LAMBDA q :
        IF q > Len(text) THEN [els |-> <<>>, pos |-> p, ok |-> FALSE]
        ELSE IF text[q] \in allowed
        THEN [els |-> Toks(text, p, q + 1), pos |-> q + 1, ok |-> TRUE]
        ELSE With(NextOf(text, q, allowed), LAMBDA r :
             With(LastSolid(text, q, r), LAMBDA e :
             With(Toks(text, p, q) \o <<Node("NODE_ERROR", Toks(text, q, e + 1), q - 1)>>,
                  LAMBDA skipped :
                 IF r > Len(text)
                 THEN [els |-> skipped, pos |-> e + 1, ok |-> FALSE]
                 ELSE [els |-> skipped \o Toks(text, e + 1, r + 1),
                       pos |-> r + 1, ok |-> TRUE]))))

\* a string literal: opening quote, content, closing quote (if any)
ParseString(text, q) ==
    With(NextOf(text, q + 1, {"\""}), LAMBDA c :
    With(IF c > Len(text) THEN Len(text) ELSE c, LAMBDA last :
        [els |-> <<Node("NODE_STRING", Toks(text, q, last + 1), q - 1)>>,
         pos |-> last + 1]))

\* an element list with more elements before it
Prepend(more, r) == [els |-> more \o r.els, pos |-> r.pos]

\* Parser::parse_attr: one segment of an attribute path
ParseAttr(text, p) ==
    With(SkipWs(text, p), LAMBDA q :
        IF q > Len(text) THEN [els |-> <<>>, pos |-> p]
        ELSE IF text[q] = "\""
        THEN Prepend(Toks(text, p, q), ParseString(text, q))
        ELSE With(Expect(text, p, Idents), LAMBDA x :
             IF x.ok
             THEN [els |-> SubSeq(x.els, 1, Len(x.els) - 1)
                           \o <<Node("NODE_IDENT", <<x.els[Len(x.els)]>>, x.pos - 2)>>,
                   pos |-> x.pos]
             ELSE [els |-> x.els, pos |-> x.pos]))

\* Parser::parse_attrpath: attr ( "." attr )*
RECURSIVE AttrSeq(_, _)
AttrSeq(text, p) ==
    With(ParseAttr(text, p), LAMBDA a :
    With(SkipWs(text, a.pos), LAMBDA q :
        IF q <= Len(text) /\ text[q] = "."
        THEN Prepend(a.els \o Toks(text, a.pos, q + 1), AttrSeq(text, q + 1))
        ELSE a))

ParseAttrpath(text, q) ==
    With(AttrSeq(text, q), LAMBDA s :
        [n |-> Node("NODE_ATTRPATH", s.els, q - 1), pos |-> s.pos])

RECURSIVE ParseExpr(_, _)
RECURSIVE SetBody(_, _)
RECURSIVE ParseEntry(_, _)

\* the expression that starts at the non-trivia symbol text[q]
ExprAt(text, q) ==
    IF text[q] = "{"
    THEN With(SetBody(text, q + 1), LAMBDA b :
            [els |-> <<Node("NODE_ATTR_SET", <<Tok("{", q - 1)>> \o b.els, q - 1)>>,
             pos |-> b.pos])
    ELSE IF text[q] = "\"" THEN ParseString(text, q)
    ELSE [els |-> <<Node(IF text[q] \in Idents THEN "NODE_IDENT" ELSE "NODE_ERROR",
                         <<Tok(text[q], q - 1)>>, q - 1)>>,
          pos |-> q + 1]

\* Parser::parse_expr, for the expressions of the modelled fragment: an
\* attribute set, a string, an identifier; anything else is a NODE_ERROR
ParseExpr(text, p) ==
    With(SkipWs(text, p), LAMBDA q :
        IF q > Len(text) THEN [els |-> <<>>, pos |-> p]
        ELSE Prepend(Toks(text, p, q), ExprAt(text, q)))

\* Parser::parse_set: entries up to the closing brace or the end of input;
\* at the end of input the set node is closed without a "}" token
SetBody(text, p) ==
    With(SkipWs(text, p), LAMBDA q :
        IF q > Len(text) THEN [els |-> <<>>, pos |-> p]
        ELSE IF text[q] = "}" THEN [els |-> Toks(text, p, q + 1), pos |-> q + 1]
        ELSE With(ParseEntry(text, q), LAMBDA e :
                Prepend(Toks(text, p, q) \o <<e.n>>, SetBody(text, e.pos))))

\* one binding: attrpath "=" expr ";"
ParseEntry(text, q) ==
    With(ParseAttrpath(text, q), LAMBDA ap :
    With(Expect(text, ap.pos, {"="}), LAMBDA eq :
    With(ParseExpr(text, eq.pos), LAMBDA val :
    With(Expect(text, val.pos, {";"}), LAMBDA semi :
        [n |-> Node("NODE_ATTRPATH_VALUE",
                    <<ap.n>> \o eq.els \o val.els \o semi.els, q - 1),
         pos |-> semi.pos]))))

\* Root::parse: the expression, then whatever is left of the input
Parse(text) ==
    With(ParseExpr(text, 1), LAMBDA v :
    With(SkipWs(text, v.pos), LAMBDA q :
        Node("NODE_ROOT",
             v.els \o (IF q > Len(text) THEN Toks(text, v.pos, Len(text) + 1)
                       ELSE Toks(text, v.pos, q)
                            \o <<Node("NODE_ERROR", Toks(text, q, Len(text) + 1), q - 1)>>),
             0)))

\* SyntaxNode::to_string: the text of the leaves, in document order
RECURSIVE TextOf(_)
TextOf(n) ==
    IF n.kind = "TOKEN" THEN <<n.text>>
    ELSE Flatten([i \in 1..Len(n.children) |-> TextOf(n.children[i])])

NodeChildren(n) == SelectSeq(n.children, LAMBDA c : c.kind # "TOKEN")

\* a walk that visits a node after its children
RECURSIVE PostOrder(_)
PostOrder(n) ==
    With(NodeChildren(n), LAMBDA cs :
        Flatten([j \in 1..Len(cs) |-> PostOrder(cs[j])]) \o <<n>>)

\* SyntaxNode::preorder, Enter events: the node, then its child nodes' from
\* left to right
RECURSIVE Preorder(_)
Preorder(n) ==
    With(NodeChildren(n), LAMBDA cs :
        <<n>> \o Flatten([j \in 1..Len(cs) |-> Preorder(cs[j])]))

ExprKinds == {"NODE_ATTR_SET", "NODE_STRING", "NODE_IDENT", "NODE_ERROR"}

FirstChild(n, kinds) ==
    LET cs == SelectSeq(n.children, LAMBDA c : c.kind \in kinds) IN
    IF cs = <<>> THEN None ELSE cs[1]

\* AttrpathValue::attrpath, AttrpathValue::value
attrpath(n) == FirstChild(n, {"NODE_ATTRPATH"})
value(n) == FirstChild(n, ExprKinds)

\* AttrSet::entries (HasEntry)
entries(n) == SelectSeq(n.children, LAMBDA c : c.kind \in {"NODE_ATTRPATH_VALUE", "NODE_INHERIT"})

\* ----------------------------------------------------------- flake_editor
\* a closure that takes the value of the binding whatever it is
InputsValueOf(node) ==
    IF node.kind = "NODE_ATTRPATH_VALUE"
    THEN IF attrpath(node) = None THEN None
         ELSE IF Trim(TextOf(attrpath(node))) = <<"inputs">> THEN value(node) ELSE None
    ELSE None

\* the closure handed to find_node: the attribute-set value of a binding
\* whose attribute path, trimmed, is `inputs`
InputsSetOf(node) ==
    IF node.kind = "NODE_ATTRPATH_VALUE"
    THEN IF attrpath(node) = None THEN None
         ELSE IF Trim(TextOf(attrpath(node))) = <<"inputs">>
              THEN IF value(node) # None /\ value(node).kind = "NODE_ATTR_SET"
                   THEN value(node)
                   ELSE None
              ELSE None
    ELSE None

\* find_node, called with the closure above: the closure's first non-None
\* result over the preorder walk
find_node(node) ==
    LET hits == SelectSeq(Preorder(node), LAMBDA m : InputsSetOf(m) # None) IN
    IF hits = <<>> THEN None ELSE InputsSetOf(hits[1])

\* a duplicate check that looks at the bindings at every depth of the set
has_entry_anywhere(set, key) ==
    \E j \in 1..Len(Preorder(set)) :
        LET entry == Preorder(set)[j] IN
        /\ entry.kind = "NODE_ATTRPATH_VALUE"
        /\ attrpath(entry) # None
        /\ Trim(TextOf(attrpath(entry))) = key

\* the duplicate check: some direct entry is a binding whose attribute path,
\* trimmed, equals key
has_entry(set, key) ==
    \E i \in 1..Len(entries(set)) :
        LET entry == entries(set)[i] IN
        /\ entry.kind = "NODE_ATTRPATH_VALUE"
        /\ attrpath(entry) # None
        /\ Trim(TextOf(attrpath(entry))) = key

\* the tokens of a subtree, in document order
RECURSIVE Leaves(_)
Leaves(n) ==
    IF n.kind = "TOKEN" THEN <<n>>
    ELSE Flatten([j \in 1..Len(n.children) |-> Leaves(n.children[j])])

\* the first "}" token anywhere below the set
closing_brace_below(set) ==
    LET ts == SelectSeq(Leaves(set), LAMBDA c : c.text = "}") IN
    IF ts = <<>> THEN None ELSE ts[1]

\* the first direct "}" token, and the end of the set when it has none
closing_brace_or_end(set) ==
    LET ts == SelectSeq(set.children, LAMBDA c : c.kind = "TOKEN" /\ c.text = "}") IN
    IF ts = <<>> THEN Tok("}", set.end) ELSE ts[1]

\* the first direct child token of the set whose text is "}"
closing_brace(set) ==
    LET ts == SelectSeq(set.children, LAMBDA c : c.kind = "TOKEN" /\ c.text = "}") IN
    IF ts = <<>> THEN None ELSE ts[1]

\* a plan that puts the entry right after the closing brace
InsertPosAfter(set) == closing_brace(set).end

\* line 66: the offset at which the closing brace starts
InsertPos(set) == closing_brace(set).start

new_input_text(key, url) ==
    <<"\n    ">> \o key \o <<".", "url", " ", "=", " ", "\"">> \o url \o <<"\"", ";", "\n  ">>

\* String::insert_str
insert_str(s, idx, t) == SubSeq(s, 1, idx) \o t \o SubSeq(s, idx + 1, Len(s))

\* ------------------------------------------------------------------- main
\* str::split(sep).last(): the part after the last separator
LastSplit(s, sep) ==
    IF \E i \in 1..Len(s) : s[i] = sep
    THEN LET i == CHOOSE j \in 1..Len(s) : s[j] = sep /\ \A k \in (j + 1)..Len(s) : s[k] # sep
         IN SubSeq(s, i + 1, Len(s))
    ELSE s

\* str::split(sep).next(): the part before the first separator
FirstSplit(s, sep) ==
    IF \E i \in 1..Len(s) : s[i] = sep
    THEN LET i == CHOOSE j \in 1..Len(s) : s[j] = sep /\ \A k \in 1..(j - 1) : s[k] # sep
         IN SubSeq(s, 1, i - 1)
    ELSE s

parse_flake_input(u) == [key |-> FirstSplit(LastSplit(u, "/"), "~"), url |-> u]

parse_input_to_pkg_string(u) == parse_flake_input(u).key \o <<".packages.${system}.default">>

\* ----------------------------------------------------------------- config
NoHook == <<"<none>">>

\* str::trim_end_matches(';')
RECURSIVE TrimEndSemis(_)
TrimEndSemis(s) ==
    IF s # <<>> /\ s[Len(s)] = ";" THEN TrimEndSemis(SubSeq(s, 1, Len(s) - 1)) ELSE s

append_hook(cfg, hook) ==
    LET h == TrimEndSemis(Trim(hook)) IN
    IF h = <<>> THEN cfg
    ELSE IF cfg.shell_hook # NoHook
    THEN [cfg EXCEPT !.shell_hook = @ \o <<";\n">> \o h]
    ELSE [cfg EXCEPT !.shell_hook = h]

DefaultConfig == [packages |-> {}, shell_hook |-> NoHook]

\* --------------------------------------------------------- starting states
Str(u) == <<"\"">> \o u \o <<"\"">>

EntryKinds == {"a.url", "a", "b"}

\* the text of an entry of the starting `inputs` set
EntryText(k) ==
    CASE k = "a.url" -> <<"a", ".", "url", " ", "=", " ">> \o Str(<<"github:owner", "/", "a">>) \o <<";">>
      [] k = "a" -> <<"a", " ", "=", " ", "{", " ", "url", " ", "=", " ">> \o Str(<<"x">>)
                    \o <<";", " ", "}", ";">>
      [] k = "b" -> <<"b", " ", "=", " ", "{", " ", "a", " ", "=", " ">> \o Str(<<"x">>)
                    \o <<";", " ", "}", ";">>

EntrySeqs == UNION {[1..n -> EntryKinds] : n \in 0..MaxEntries}

Body(es) == Flatten([i \in 1..Len(es) |-> <<"\n    ">> \o EntryText(es[i])]) \o <<"\n  ">>

SetText(es) == <<"{">> \o Body(es) \o <<"}">>

Inputs(es) == <<"inputs", " ", "=", " ">> \o SetText(es) \o <<";">>

Layouts == {"top", "nested_first", "nested_after", "self_nested", "no_section",
            "not_a_set", "unterminated", "empty"}

\* the flake.nix files a run starts from
Doc(layout, es) ==
    CASE layout = "top" -> <<"{", "\n  ">> \o Inputs(es) \o <<"\n", "}", "\n">>
      [] layout = "nested_first" ->
            <<"{", "\n  ", "outputs", " ", "=", " ", "{", " ">> \o Inputs(<<>>)
            \o <<" ", "}", ";", "\n  ">> \o Inputs(es) \o <<"\n", "}", "\n">>
      [] layout = "nested_after" ->
            <<"{", "\n  ">> \o Inputs(es) \o <<"\n  ", "outputs", " ", "=", " ", "{", " ">>
            \o Inputs(<<>>) \o <<" ", "}", ";", "\n", "}", "\n">>
      [] layout = "self_nested" ->
            <<"{", "\n  ", "inputs", " ", "=", " ", "{", "\n    ">> \o Inputs(<<>>)
            \o Body(es) \o <<"}", ";", "\n", "}", "\n">>
      [] layout = "no_section" ->
            <<"{", "\n  ", "description", " ", "=", " ">> \o Str(<<"x">>)
            \o <<";", "\n  ", "outputs", " ", "=", " ">> \o SetText(es) \o <<";", "\n", "}", "\n">>
      [] layout = "not_a_set" ->
            <<"{", "\n  ", "inputs", " ", "=", " ">> \o Str(<<"x">>) \o <<";", "\n", "}", "\n">>
      [] layout = "unterminated" ->
            <<"{", "\n  ", "inputs", " ", "=", " ", "{">> \o Body(es)
      [] layout = "empty" -> <<>>

Docs == {Doc(l, es) : l \in Layouts, es \in EntrySeqs}

\* the requested flake inputs (-P)
URLs == { <<"github:owner", "/", "a", "~", "dev">>,
          <<"b">> }

InputLists == UNION {[1..n -> URLs] : n \in 0..MaxInputs}

\* the rest of the arguments of `add`: -p and -s
ArgExtras == { [packages |-> {}, shell_hook |-> NoHook],
               [packages |-> {<<"jq">>}, shell_hook |-> <<" ", "echo", ";", ";">>] }

\* devshell.toml on disk
ConfigFiles == { [st |-> "missing", cfg |-> DefaultConfig],
                 [st |-> "invalid", cfg |-> DefaultConfig],
                 [st |-> "valid", cfg |-> [packages |-> {<<"git">>}, shell_hook |-> <<"make">>]] }

\* ------------------------------------------------------------------ state
Ok == [ok |-> TRUE, kind |-> "", msg |-> ""]
Err(k, m) == [ok |-> FALSE, kind |-> k, msg |-> m]
NoRet == [ok |-> FALSE, kind |-> "", msg |-> ""]

VARIABLES
    file,            \* flake.nix: its text
    fileExists,      \* flake.nix is there and readable
    cfgFile,         \* devshell.toml
    hpc,             \* handle_add: "idle", "loop", "call", "done"
    args,            \* AddArgs
    i,               \* handle_add: inputs handled so far
    config,          \* handle_add: the loaded DevShellConfig
    hret,            \* what handle_add returned
    epc,             \* add_flake_input: the state of the edit
    reason,          \* add_flake_input: why the edit failed
    key, url,        \* add_flake_input: its arguments
    content,         \* add_flake_input: the text read
    ast,             \* add_flake_input: the parse
    inputs_set_node, \* add_flake_input: the located set
    insert_pos,      \* add_flake_input: the planned offset
    ret,             \* what add_flake_input returned
    writes,          \* fs::write calls of the current edit
    hist             \* one record per finished edit of this invocation

vars == <<file, fileExists, cfgFile, hpc, args, i, config, hret, epc, reason, key, url,
          content, ast, inputs_set_node, insert_pos, ret, writes, hist>>

edit == <<epc, reason, key, url, content, ast, inputs_set_node, insert_pos, ret, writes>>
handler == <<hpc, args, i, config, hret, hist>>

NoArgs == [inputs |-> <<>>, packages |-> {}, shell_hook |-> NoHook]

EditIdle ==
    /\ epc = "None" /\ reason = "" /\ key = <<>> /\ url = <<>> /\ content = <<>>
    /\ ast = None /\ inputs_set_node = None /\ insert_pos = 0 /\ ret = NoRet /\ writes = 0

Init ==
    /\ \/ fileExists = TRUE /\ file \in Docs
       \/ fileExists = FALSE /\ file = <<>>
    /\ cfgFile \in ConfigFiles
    /\ hpc = "idle" /\ args = NoArgs /\ i = 0 /\ config = DefaultConfig /\ hret = NoRet
    /\ hist = <<>>
    /\ EditIdle

\* ----------------------------------------------------------- add_flake_input
\* lines 20-21: read flake.nix and parse it
ReadParse ==
    /\ epc = "Start"
    /\ IF fileExists
       THEN /\ content' = file
            /\ ast' = Parse(file)
            /\ epc' = "Parsed"
            /\ UNCHANGED <<reason, ret>>
       ELSE /\ epc' = "Failed"
            /\ reason' = "IoError"
            /\ ret' = Err("NotFound", "No such file or directory (os error 2)")
            /\ UNCHANGED <<content, ast>>
    /\ UNCHANGED <<file, fileExists, cfgFile, handler, key, url, inputs_set_node,
                   insert_pos, writes>>

\* lines 24-41: locate the `inputs` set
Locate ==
    /\ epc = "Parsed"
    /\ LET found == find_node(ast) IN
       IF found # None
       THEN /\ inputs_set_node' = found
            /\ epc' = "Located"
            /\ UNCHANGED <<reason, ret>>
       ELSE /\ epc' = "Failed"
            /\ reason' = "SectionNotFound"
            /\ ret' = Err("NotFound", "Could not find inputs set in flake.nix")
            /\ UNCHANGED inputs_set_node
    /\ UNCHANGED <<file, fileExists, cfgFile, handler, key, url, content, ast,
                   insert_pos, writes>>

\* lines 44-66: the duplicate check, then the insertion plan
Plan ==
    /\ epc = "Located"
    /\ IF has_entry(inputs_set_node, key)
       THEN /\ epc' = "AlreadyPresent"
            /\ ret' = Ok
            /\ UNCHANGED <<reason, insert_pos>>
       ELSE IF closing_brace(inputs_set_node) = None
       THEN /\ epc' = "Failed"
            /\ reason' = "MalformedSection"
            /\ ret' = Err("NotFound", "Could not find closing brace")
            /\ UNCHANGED insert_pos
       ELSE /\ epc' = "Planned"
            /\ insert_pos' = InsertPos(inputs_set_node)
            /\ UNCHANGED <<reason, ret>>
    /\ UNCHANGED <<file, fileExists, cfgFile, handler, key, url, content, ast,
                   inputs_set_node, writes>>

\* lines 67-73: splice the new entry into the text read and write it back
Apply ==
    /\ epc = "Planned"
    /\ file' = insert_str(content, insert_pos, new_input_text(key, url))
    /\ writes' = writes + 1
    /\ epc' = "Applied"
    /\ ret' = Ok
    /\ UNCHANGED <<fileExists, cfgFile, handler, reason, key, url, content, ast,
                   inputs_set_node, insert_pos>>

Terminal == {"AlreadyPresent", "Applied", "Failed"}

\* ---------------------------------------------------------------- handle_add
\* line 98: load devshell.toml; a file that does not parse ends the command
HandleAddStart ==
    /\ hpc = "idle"
    /\ \E ins \in InputLists, ex \in ArgExtras :
          args' = [inputs |-> ins, packages |-> ex.packages, shell_hook |-> ex.shell_hook]
    /\ IF cfgFile.st = "invalid"
       THEN /\ hpc' = "done"
            /\ hret' = Err("InvalidData", "toml")
            /\ UNCHANGED config
       ELSE /\ hpc' = "loop"
            /\ config' = cfgFile.cfg
            /\ UNCHANGED hret
    /\ UNCHANGED <<file, fileExists, cfgFile, i, hist, edit>>

\* lines 103-107: the next input is parsed and handed to add_flake_input
BeginEdit ==
    /\ hpc = "loop"
    /\ i < Len(args.inputs)
    /\ hpc' = "call"
    /\ key' = parse_flake_input(args.inputs[i + 1]).key
    /\ url' = parse_flake_input(args.inputs[i + 1]).url
    /\ epc' = "Start"
    /\ UNCHANGED <<file, fileExists, cfgFile, args, i, config, hret, hist, reason, content,
                   ast, inputs_set_node, insert_pos, ret, writes>>

\* what handle_add does with the value add_flake_input returned
Report(r) == IF r.ok THEN "Successfully added input" ELSE "Failed to add input"

PackagesAlways(pk, r, u) == pk \cup {parse_input_to_pkg_string(u)}

PackagesAfter(pk, r, u) == IF r.ok THEN pk \cup {parse_input_to_pkg_string(u)} ELSE pk

\* lines 107-120: the match on the returned value
HandleResult ==
    /\ hpc = "call"
    /\ epc \in Terminal
    /\ config' = [config EXCEPT !.packages = PackagesAfter(@, ret, args.inputs[i + 1])]
    /\ hist' = Append(hist, [input |-> args.inputs[i + 1], key |-> key, url |-> url,
                             outcome |-> epc, reason |-> reason, ret |-> ret,
                             report |-> Report(ret), before |-> content, after |-> file,
                             read |-> (epc # "Failed" \/ reason # "IoError"),
                             writes |-> writes])
    /\ i' = i + 1
    /\ hpc' = "loop"
    /\ epc' = "None" /\ reason' = "" /\ key' = <<>> /\ url' = <<>> /\ content' = <<>>
    /\ ast' = None /\ inputs_set_node' = None /\ insert_pos' = 0 /\ ret' = NoRet
    /\ writes' = 0
    /\ UNCHANGED <<file, fileExists, cfgFile, args, hret>>

\* lines 124-141: -p, -s, save devshell.toml
Finish ==
    /\ hpc = "loop"
    /\ i = Len(args.inputs)
    /\ LET c1 == [config EXCEPT !.packages = @ \cup args.packages]
           c2 == IF args.shell_hook # NoHook THEN append_hook(c1, args.shell_hook) ELSE c1
       IN /\ config' = c2
          /\ cfgFile' = [st |-> "valid", cfg |-> c2]
    /\ hret' = Ok
    /\ hpc' = "done"
    /\ UNCHANGED <<file, fileExists, args, i, hist, edit>>

Next ==
    \/ HandleAddStart
    \/ BeginEdit
    \/ ReadParse
    \/ Locate
    \/ Plan
    \/ Apply
    \/ HandleResult
    \/ Finish

Spec == Init /\ [][Next]_vars

\* ------------------------------------------------- the text, read directly
\* What the claims say about the text is stated over the symbols themselves,
\* by counting quotes and braces, not over the tree.

\* position p lies inside a string literal
InStr(text, p) == Cardinality({k \in 1..(p - 1) : text[k] = "\""}) % 2 = 1

\* occurrences of symbol s in text[lo..hi], outside string literals
Count(text, lo, hi, s) == Cardinality({k \in lo..hi : text[k] = s /\ ~InStr(text, k)})

\* braces open at position p, counted from the brace at o
RelDepth(text, o, p) == Count(text, o, p - 1, "{") - Count(text, o, p - 1, "}")

\* index of the brace that closes the one at index o, 0 when it is not closed
MatchingClose(text, o) ==
    LET cs == {c \in (o + 1)..Len(text) :
                  text[c] = "}" /\ ~InStr(text, c) /\ RelDepth(text, o, c) = 1}
    IN IF cs = {} THEN 0 ELSE CHOOSE c \in cs : \A d \in cs : c <= d

\* index of the last non-trivia symbol before p, 0 when there is none
PrevSolid(text, p) ==
    LET qs == {q \in 1..(p - 1) : ~IsTrivia(text[q])} IN
    IF qs = {} THEN 0 ELSE CHOOSE q \in qs : \A r \in qs : r <= q

\* the trimmed attribute paths of the direct entries of the set opened at o
DirectNames(text, o) ==
    LET close == MatchingClose(text, o)
        hi == IF close = 0 THEN Len(text) ELSE close - 1
        starts == {p \in (o + 1)..hi :
                      /\ ~IsTrivia(text[p]) /\ ~InStr(text, p)
                      /\ RelDepth(text, o, p) = 1
                      /\ LET q == PrevSolid(text, p) IN
                         \/ q = o
                         \/ text[q] = ";" /\ ~InStr(text, q) /\ RelDepth(text, o, q) = 1}
    IN {Trim(SubSeq(text, p, NextOf(text, p, {"="}) - 1)) : p \in starts}

\* the indices at which a binding `inputs = {` starts
InputsBindings(text) ==
    {p \in 1..Len(text) :
        /\ text[p] = "inputs" /\ ~InStr(text, p)
        /\ PrevSolid(text, p) # 0 /\ text[PrevSolid(text, p)] \in {"{", ";"}
        /\ LET e == SkipWs(text, p + 1) IN
           /\ e <= Len(text) /\ text[e] = "="
           /\ LET v == SkipWs(text, e + 1) IN v <= Len(text) /\ text[v] = "{"}

\* the texts of the direct entries of a set node
EntryTexts(set) == [j \in 1..Len(entries(set)) |-> TextOf(entries(set)[j])]

\* the entry an insertion of (key, url) is meant to add
InsertedEntry(k, u) == k \o <<".", "url", " ", "=", " ", "\"">> \o u \o <<"\"", ";">>

Applied(h) == h.outcome = "Applied"

\* the edit has gone through the duplicate check
AfterCheck ==
    \/ epc \in {"AlreadyPresent", "Planned", "Applied"}
    \/ epc = "Failed" /\ reason = "MalformedSection"

\* ----------------------------------------------------------------- claims

\* C1: running the identical edit a second time leaves the file as the first
\* run left it, and the second run ends in AlreadyPresent.
C1_Idempotent ==
    \A j \in 1..(Len(hist) - 1) :
        (Applied(hist[j]) /\ hist[j + 1].input = hist[j].input)
            => /\ hist[j + 1].outcome = "AlreadyPresent"
               /\ hist[j + 1].after = hist[j].after

\* C2: a write is the text read with the new entry spliced in at the start
\* offset of the located set's closing brace: every symbol before the offset
\* and every symbol from the offset on is kept, in place and in order.
C2_LosslessSplice ==
    epc = "Applied" =>
        LET c == MatchingClose(content, inputs_set_node.start + 1)
            off == c - 1
            ins == new_input_text(key, url)
        IN /\ c # 0
           /\ Len(file) = Len(content) + Len(ins)
           /\ \A j \in 1..off : file[j] = content[j]
           /\ \A j \in 1..Len(ins) : file[off + j] = ins[j]
           /\ \A j \in (off + 1)..Len(content) : file[Len(ins) + j] = content[j]

C2_Witness ==
    /\ epc = "Applied"
    /\ hist # <<>> /\ Applied(hist[Len(hist)])
    /\ insert_pos > 0 /\ insert_pos < Len(content)

\* C3: after a successful insertion the written text, parsed again, has a
\* located `inputs` set for which the duplicate check finds the inserted name.
C3_RoundTrip ==
    epc = "Applied" =>
        LET sec == find_node(Parse(file)) IN
        sec # None /\ has_entry(sec, key)

\* C4: after the successful insertions of an invocation the located set's
\* direct entries are the ones it had, in their order, followed by the
\* inserted entries in the order they were requested.
C4_OrderPreserved ==
    (hpc = "loop" /\ \E j \in 1..Len(hist) : Applied(hist[j])) =>
        LET done == SelectSeq(hist, Applied)
            was == find_node(Parse(hist[1].before))
            now == find_node(Parse(file))
        IN /\ was # None /\ now # None
           /\ EntryTexts(now)
                = EntryTexts(was)
                  \o [j \in 1..Len(done) |-> InsertedEntry(done[j].key, done[j].url)]

C4_Witness ==
    /\ hpc = "loop" /\ Len(hist) = 2
    /\ Applied(hist[1]) /\ Applied(hist[2])
    /\ hist[1].key # hist[2].key
    /\ Len(entries(find_node(Parse(hist[1].before)))) = 2

\* C5: the value add_flake_input returns tells the outcomes apart, and
\* handle_add reports an input that was already present differently from one
\* that was added.
C5_OutcomesDistinguished ==
    \A j, k \in 1..Len(hist) :
        /\ hist[j].ret = hist[k].ret
              => hist[j].outcome = hist[k].outcome /\ hist[j].reason = hist[k].reason
        /\ hist[j].report = hist[k].report
              => (hist[j].outcome = "AlreadyPresent") = (hist[k].outcome = "AlreadyPresent")

\* C6: a text without a binding `inputs = { ... }` ends the edit in
\* Failed(SectionNotFound), reported as such, and the file is not written.
C6_SectionNotFound ==
    (epc \in Terminal /\ reason # "IoError" /\ InputsBindings(content) = {}) =>
        /\ epc = "Failed" /\ reason = "SectionNotFound"
        /\ ret = Err("NotFound", "Could not find inputs set in flake.nix")
        /\ writes = 0 /\ file = content

C6_Witness ==
    /\ epc = "Failed" /\ reason = "SectionNotFound"
    /\ \E p \in 1..Len(content) : content[p] = "inputs"

\* C7: handle_add attempts every input once and in order whatever the earlier
\* outcomes, keeps the edits applied, returns success, and adds the package
\* string exactly for the inputs whose edit returned success.
C7_PerItem ==
    /\ Len(hist) = i /\ i <= Len(args.inputs)
    /\ \A j \in 1..Len(hist) : hist[j].input = args.inputs[j]
    /\ \A j \in 1..(Len(hist) - 1) :
          (hist[j].read /\ hist[j + 1].read) => hist[j + 1].before = hist[j].after
    /\ (hpc = "loop" /\ hist # <<>>) => file = hist[Len(hist)].after
    /\ hpc = "loop" =>
          config.packages
            = cfgFile.cfg.packages
              \cup {parse_input_to_pkg_string(hist[j].input) :
                        j \in {k \in 1..Len(hist) : hist[k].ret.ok}}
    /\ hpc = "done" =>
          IF cfgFile.st = "invalid" THEN ~hret.ok /\ hist = <<>>
          ELSE hret = Ok /\ Len(hist) = Len(args.inputs)

C7_Witness ==
    /\ hpc = "done" /\ hret = Ok
    /\ Len(hist) = 2
    /\ ~hist[1].ret.ok /\ ~hist[2].ret.ok

\* the moves of one edit
EditMoves ==
    { <<"None", "Start">>, <<"Start", "Parsed">>, <<"Start", "Failed">>,
      <<"Parsed", "Located">>, <<"Parsed", "Failed">>,
      <<"Located", "AlreadyPresent">>, <<"Located", "Planned">>, <<"Located", "Failed">>,
      <<"Planned", "Applied">>,
      <<"AlreadyPresent", "None">>, <<"Applied", "None">>, <<"Failed", "None">> }

C9_DuplicateChecker ==
    AfterCheck =>
        /\ (epc = "AlreadyPresent") = (key \in DirectNames(content, inputs_set_node.start + 1))
        /\ epc = "AlreadyPresent" => ret = Ok /\ file = content /\ writes = 0

C9_Witness ==
    /\ epc = "AlreadyPresent"
    /\ Len(entries(inputs_set_node)) = 2

\* every node of the tree
RECURSIVE Descendants(_)
Descendants(n) ==
    {n} \cup UNION {Descendants(n.children[j]) :
                        j \in {k \in 1..Len(n.children) : n.children[k].kind # "TOKEN"}}

\* the bindings the locator's predicate accepts
Matches(root) == {n \in Descendants(root) : InputsSetOf(n) # None}

\* the set the file's outermost expression is
TopLevel(root) == FirstChild(root, {"NODE_ATTR_SET"})

TopLevelMatches(root) ==
    IF TopLevel(root) = None THEN {}
    ELSE {n \in Matches(root) :
             \E j \in 1..Len(entries(TopLevel(root))) : entries(TopLevel(root))[j] = n}

\* C10 as stated: whenever a top-level `inputs` set exists, it is the one
\* that is located.
C10_TopLevelChosen ==
    (epc = "Located" /\ TopLevelMatches(ast) # {}) =>
        \E n \in TopLevelMatches(ast) : inputs_set_node = InputsSetOf(n)

\* C10 amended: the located set belongs to the accepted binding that starts
\* first in the text (no accepted binding encloses it); nothing is located
\* exactly when no binding is accepted.
C10_EarliestChosen ==
    /\ epc = "Located" =>
          \E n \in Matches(ast) :
              /\ inputs_set_node = InputsSetOf(n)
              /\ \A m \in Matches(ast) : n.start <= m.start
              /\ \A m \in Matches(ast) : m # n => ~(m.start <= n.start /\ n.end <= m.end)
    /\ (epc = "Failed" /\ reason = "SectionNotFound") => Matches(ast) = {}

C10_Witness ==
    /\ epc = "Located"
    /\ Cardinality(Matches(ast)) = 2
    /\ TopLevelMatches(ast) # {}
    /\ \A n \in TopLevelMatches(ast) : inputs_set_node # InputsSetOf(n)
====
